---- MODULE Spec2Model ----
(***************************************************************************)
(* Model of multer-sharp (src/index.js): the MulterSharp storage engine.   *)
(*   - the constructor (required options, defaults merge, strategies)      *)
(*   - transformer(options): options -> ordered list of sharp calls        *)
(*   - _handleFile: destination -> filename -> pipe -> callback            *)
(*   - _removeFile: destination -> delete                                  *)
(* JavaScript values are modelled by tagged records (JsVal) so that        *)
(* truthiness, typeof and hasOwnProperty are computed as JavaScript does.  *)
(***************************************************************************)
EXTENDS Integers, Sequences, FiniteSets, TLC

----------------------------------------------------------------------------
(* JavaScript values *)

JsRec(t, b, n, s, own, type, width, height) ==
  [t |-> t, b |-> b, n |-> n, s |-> s, own |-> own,
   type |-> type, width |-> width, height |-> height]

Undefined == JsRec("undefined", FALSE, 0, "", {}, "", 0, 0)
Null      == JsRec("null", FALSE, 0, "", {}, "", 0, 0)
Bool(b)   == JsRec("boolean", b, 0, "", {}, "", 0, 0)
Num(n)    == JsRec("number", FALSE, n, "", {}, "", 0, 0)
NaN       == JsRec("number", FALSE, 0, "NaN", {}, "", 0, 0)
Str(s)    == JsRec("string", FALSE, 0, s, {}, "", 0, 0)
Fn(name)  == JsRec("function", FALSE, 0, name, {}, "", 0, 0)
Obj(own, type, width, height) ==
  JsRec("object", FALSE, 0, "", own, type, width, height)

\* typeof v (typeof null is 'object')
TypeOf(v) == IF v.t = "null" THEN "object" ELSE v.t

\* ToBoolean(v): false, 0, NaN, '', null, undefined are falsy
Truthy(v) ==
  CASE v.t = "undefined" -> FALSE
    [] v.t = "null"      -> FALSE
    [] v.t = "boolean"   -> v.b
    [] v.t = "number"    -> v.n # 0 /\ v.s # "NaN"
    [] v.t = "string"    -> v.s # ""
    [] OTHER             -> TRUE

\* Object.prototype.hasOwnProperty.call(v, key) on a non-null value
HasOwn(v, key) == v.t = "object" /\ key \in v.own

\* v[key] on a non-null, non-undefined value
Get(v, key) ==
  IF ~HasOwn(v, key) THEN Undefined
  ELSE CASE key = "type"   -> Str(v.type)
         [] key = "width"  -> Num(v.width)
         [] key = "height" -> Num(v.height)
         [] OTHER          -> Obj({}, "", 0, 0)

\* a || b
Or(a, b) == IF Truthy(a) THEN a ELSE b

\* parseInt(v, 10) for the values of the model
ParseInt(v) == IF v.t = "number" THEN v ELSE NaN

----------------------------------------------------------------------------
(* Options *)

RequiredKeys == {"bucket", "projectId", "keyFilename"}

TransformKeys ==
  {"size", "format", "resize", "crop", "background", "embed", "max", "min",
   "withoutEnlargement", "ignoreAspectRatio", "extract", "trim", "flatten",
   "extend", "negate", "rotate", "flip", "flop", "blur", "sharpen", "gamma",
   "grayscale", "greyscale", "normalize", "normalise", "withMetadata",
   "convolve", "threshold", "toColourspace", "toColorspace"}

AllKeys == RequiredKeys \cup {"acl", "destination", "filename"} \cup TransformKeys

\* MulterSharp.defaultOptions
defaultOptions ==
  [k \in {"acl", "resize", "crop", "background", "embed", "max", "min",
          "withoutEnlargement", "ignoreAspectRatio", "extract", "trim",
          "flatten", "extend", "negate", "rotate", "flip", "flop", "blur",
          "sharpen", "gamma", "grayscale", "greyscale", "normalize",
          "normalise", "withMetadata", "convolve", "threshold",
          "toColourspace", "toColorspace"} |->
     CASE k = "acl"    -> Str("private")
       [] k = "resize" -> Bool(TRUE)
       [] OTHER        -> Bool(FALSE)]

\* options.k for an options object given as a function on its own keys
Prop(o, k) == IF k \in DOMAIN o THEN o[k] ELSE Undefined

\* Object.assign({}, MulterSharp.defaultOptions, options || {})
MergeOptions(user) ==
  [k \in AllKeys |->
     IF k \in DOMAIN user THEN user[k] ELSE Prop(defaultOptions, k)]

----------------------------------------------------------------------------
(* transformer(options): the sharp calls, in the order they are chained *)

Stage(op, args) == [op |-> op, args |-> args]

\* sharp.gravity
Gravity ==
  [g \in {"center", "centre", "north", "east", "south", "west", "northeast",
          "southeast", "southwest", "northwest"} |->
     CASE g \in {"center", "centre"} -> 0
       [] g = "north" -> 1 [] g = "east" -> 2 [] g = "south" -> 3
       [] g = "west" -> 4 [] g = "northeast" -> 5 [] g = "southeast" -> 6
       [] g = "southwest" -> 7 [] g = "northwest" -> 8]

\* if (cond) imageStream = imageStream.op(args)
When(cond, op, args) == IF cond THEN <<Stage(op, args)>> ELSE <<>>

resizeStageIgnoresToggle(options) ==
  IF Truthy(options.size)
  THEN <<Stage("resize", <<Get(options.size, "width"),
                           Get(options.size, "height"),
                           Get(options.size, "option")>>)>>
  ELSE <<>>

resizeStageIgnoresSize(options) ==
  IF Truthy(options.resize)
  THEN <<Stage("resize", <<Get(options.size, "width"),
                           Get(options.size, "height"),
                           Get(options.size, "option")>>)>>
  ELSE <<>>

\* if (options.resize && options.size)
resizeStage(options) ==
  IF Truthy(options.resize) /\ Truthy(options.size)
  THEN <<Stage("resize", <<Get(options.size, "width"),
                           Get(options.size, "height"),
                           Get(options.size, "option")>>)>>
  ELSE <<>>

cropStage(options) ==
  IF Truthy(options.crop) /\ options.crop.t = "string"
     /\ options.crop.s \in DOMAIN Gravity
  THEN <<Stage("crop", <<Num(Gravity[options.crop.s])>>)>>
  ELSE <<>>

\* includes([0, 90, 180, 270], options.rotate)
rotateGuardLoose(options) == Truthy(options.rotate)

rotateGuard(options) ==
  options.rotate.t = "number" /\ options.rotate.s # "NaN"
  /\ options.rotate.n \in {0, 90, 180, 270}

rotateStage(options) == When(rotateGuard(options), "rotate", <<options.rotate>>)

formatStage(options) ==
  IF Truthy(options.format)
  THEN IF TypeOf(options.format) = "object"
          /\ HasOwn(options.format, "type") /\ HasOwn(options.format, "option")
       THEN <<Stage("toFormat", <<Get(options.format, "type"),
                                  Get(options.format, "option")>>)>>
       ELSE <<Stage("toFormat", <<options.format>>)>>
  ELSE <<>>

transformerSwapped(options) ==
     resizeStage(options)
  \o When(Truthy(options.background), "background", <<options.background>>)
  \o cropStage(options)
  \o When(Truthy(options.embed), "embed", <<>>)
  \o When(Truthy(options.max), "max", <<>>)
  \o When(Truthy(options.min), "min", <<>>)
  \o When(Truthy(options.withoutEnlargement), "withoutEnlargement", <<>>)
  \o When(Truthy(options.ignoreAspectRatio), "ignoreAspectRatio", <<>>)
  \o When(Truthy(options.extract), "extract", <<options.extract>>)
  \o When(Truthy(options.trim), "trim", <<ParseInt(options.trim)>>)
  \o When(Truthy(options.flatten), "flatten", <<>>)
  \o When(Truthy(options.extend), "extend", <<options.extend>>)
  \o When(Truthy(options.negate), "negate", <<>>)
  \o When(Truthy(options.flip), "flip", <<>>)
  \o rotateStage(options)
  \o When(Truthy(options.flop), "flop", <<>>)
  \o When(Truthy(options.blur), "blur", <<options.blur>>)
  \o When(Truthy(options.sharpen), "sharpen", <<options.sharpen>>)
  \o When(Truthy(options.gamma), "gamma", <<options.gamma>>)
  \o When(Truthy(options.grayscale) \/ Truthy(options.greyscale), "greyscale", <<>>)
  \o When(Truthy(options.normalize) \/ Truthy(options.normalise), "normalise", <<>>)
  \o When(Truthy(options.convolve), "convolve", <<options.convolve>>)
  \o When(Truthy(options.threshold), "threshold", <<options.threshold>>)
  \o When(Truthy(options.toColourspace) \/ Truthy(options.toColorspace),
          "toColourspace", <<Or(options.toColourspace, options.toColorspace)>>)
  \o formatStage(options)
  \o When(Truthy(options.withMetadata), "withMetadata", <<options.withMetadata>>)

transformer(options) ==
     resizeStage(options)
  \o When(Truthy(options.background), "background", <<options.background>>)
  \o cropStage(options)
  \o When(Truthy(options.embed), "embed", <<>>)
  \o When(Truthy(options.max), "max", <<>>)
  \o When(Truthy(options.min), "min", <<>>)
  \o When(Truthy(options.withoutEnlargement), "withoutEnlargement", <<>>)
  \o When(Truthy(options.ignoreAspectRatio), "ignoreAspectRatio", <<>>)
  \o When(Truthy(options.extract), "extract", <<options.extract>>)
  \o When(Truthy(options.trim), "trim", <<ParseInt(options.trim)>>)
  \o When(Truthy(options.flatten), "flatten", <<>>)
  \o When(Truthy(options.extend), "extend", <<options.extend>>)
  \o When(Truthy(options.negate), "negate", <<>>)
  \o rotateStage(options)
  \o When(Truthy(options.flip), "flip", <<>>)
  \o When(Truthy(options.flop), "flop", <<>>)
  \o When(Truthy(options.blur), "blur", <<options.blur>>)
  \o When(Truthy(options.sharpen), "sharpen", <<options.sharpen>>)
  \o When(Truthy(options.gamma), "gamma", <<options.gamma>>)
  \o When(Truthy(options.grayscale) \/ Truthy(options.greyscale), "greyscale", <<>>)
  \o When(Truthy(options.normalize) \/ Truthy(options.normalise), "normalise", <<>>)
  \o When(Truthy(options.convolve), "convolve", <<options.convolve>>)
  \o When(Truthy(options.threshold), "threshold", <<options.threshold>>)
  \o When(Truthy(options.toColourspace) \/ Truthy(options.toColorspace),
          "toColourspace", <<Or(options.toColourspace, options.toColorspace)>>)
  \o When(Truthy(options.withMetadata), "withMetadata", <<options.withMetadata>>)
  \o formatStage(options)

----------------------------------------------------------------------------
(* Strings: template literals, encodeURI, mime-types lookup *)

\* `${v}` for the values of the model
TemplateString(v) ==
  CASE v.t = "string"    -> v.s
    [] v.t = "undefined" -> "undefined"
    [] v.t = "null"      -> "null"
    [] v.t = "boolean"   -> IF v.b THEN "true" ELSE "false"
    [] OTHER             -> "[object Object]"

\* the percent-escape of the characters encodeURI escapes (those the model uses)
UriEscape == [ch \in {" ", "%"} |-> IF ch = " " THEN "%20" ELSE "%25"]

RECURSIVE encodeURI(_)
encodeURI(s) ==
  IF Len(s) = 0 THEN ""
  ELSE (IF Head(s) \in DOMAIN UriEscape THEN UriEscape[Head(s)] ELSE Head(s))
       \o encodeURI(Tail(s))

\* require('mime-types').lookup on an extension
MimeTable ==
  [e \in {"jpeg", "jpg", "png", "webp", "tiff", "gif"} |->
     CASE e \in {"jpeg", "jpg"} -> "image/jpeg"
       [] e = "png"  -> "image/png"
       [] e = "webp" -> "image/webp"
       [] e = "tiff" -> "image/tiff"
       [] e = "gif"  -> "image/gif"]

lookup(v) ==
  IF v.t = "string" /\ v.s \in DOMAIN MimeTable THEN Str(MimeTable[v.s])
  ELSE Bool(FALSE)

\* getFormat(format); it throws a TypeError when format is null
getFormatThrows(format) == format.t = "null"

getFormatNoType(format) == lookup(format)

\* the value getFormat hands to lookup
formatLookedUp(format) ==
  IF TypeOf(format) = "object" /\ HasOwn(format, "type")
  THEN Get(format, "type")
  ELSE format

getFormat(format) == lookup(formatLookedUp(format))

\* gcName in _handleFile
gcNameUpload(destination, filename) ==
  IF TypeOf(destination) = "string" /\ Len(destination.s) > 0
  THEN Str(destination.s \o "/" \o TemplateString(filename))
  ELSE filename

gcNameNoSlash(destination, filename) ==
  IF TypeOf(destination) = "string" /\ Len(destination.s) > 0
  THEN Str(destination.s \o TemplateString(filename))
  ELSE filename

\* gcName in _removeFile
gcNameRemove(destination, filename) ==
  IF TypeOf(destination) = "string" /\ Len(destination.s) > 0
  THEN Str(destination.s \o "/" \o TemplateString(filename))
  ELSE filename

----------------------------------------------------------------------------
(* Bounds and input sets *)

MaxCalls == 1        \* _handleFile calls in flight through the engine
MaxRemoves == 1      \* _removeFile calls in flight through the engine
MaxOverrides == 1    \* options set by the user on top of a base configuration
MaxParallel == 2     \* uploads in flight together through one engine

Calls == 1..MaxCalls
Removes == 1..MaxRemoves
Parallel == 1..MaxParallel

\* file.mimetype of the inbound files
InboundMimes == {"image/bmp"}

\* what a destination strategy hands to its callback: [err, val]
Outcome(err, val) == [err |-> err, val |-> val]

CustomDestinations == {Str(""), Str("img")}
DefaultFilenames == {Str("a1b2c3")}
CustomFilenames == {Str("my pic")}

\* the options objects with keys among `keys`, each key k valued in Vals(k)
OptionsOver(keys, Vals(_)) ==
  {o \in UNION {[ks -> UNION {Vals(k) : k \in ks}] : ks \in SUBSET keys} :
     \A k \in DOMAIN o : o[k] \in Vals(k)}

\* o2's properties over o1's
Extend(o1, o2) ==
  [k \in DOMAIN o1 \cup DOMAIN o2 |-> IF k \in DOMAIN o2 THEN o2[k] ELSE o1[k]]

RequiredOptions ==
  [k \in RequiredKeys |->
     CASE k = "bucket" -> Str("b") [] k = "projectId" -> Str("p")
       [] OTHER -> Str("k")]

\* the upload and removal specification: naming strategies and output formats
LifecycleValues(k) ==
  CASE k = "destination" -> {Str("img"), Fn("destination")}
    [] k = "filename"    -> {Fn("filename")}
    [] OTHER             -> {Str("jpeg"), Str("dz"), Null,
                             Obj({"type", "option"}, "png", 0, 0),
                             Obj({"type"}, "webp", 0, 0)}

\* either the naming strategies or the format are set, on top of the defaults
LifecycleOptions ==
  {Extend(RequiredOptions, o) :
     o \in OptionsOver({"destination", "filename"}, LifecycleValues)
           \cup OptionsOver({"format"}, LifecycleValues)}
  \cup {[k \in {"projectId", "keyFilename"} |-> RequiredOptions[k]]}

\* the constructor specification: each required option absent, falsy or set
EnvNames == {"GCS_BUCKET", "GCLOUD_PROJECT", "GCS_KEYFILE"}

ConstructorValues(k) == {Str(""), Null, RequiredOptions[k]}

ConstructorOptions == OptionsOver(RequiredKeys, ConstructorValues)

\* the transformer specification: a base configuration and a few overrides
AllOn ==
  [k \in TransformKeys |->
     CASE k = "size"   -> Obj({"width", "height"}, "", 100, 50)
       [] k = "format" -> Str("jpeg")
       [] k = "crop"   -> Str("north")
       [] k = "rotate" -> Num(90)
       [] k \in {"trim", "blur", "gamma", "threshold"} -> Num(5)
       [] k \in {"background", "toColourspace", "toColorspace"} -> Str("srgb")
       [] k \in {"extract", "extend", "convolve"} -> Obj({"width", "height"}, "", 3, 3)
       [] OTHER -> Bool(TRUE)]

ToggleValues ==
  {Bool(FALSE), Num(0), Str(""), Null, Undefined, NaN,
   Bool(TRUE), Num(90), Num(45), Str("90"), Str("north"), Str("jpeg"),
   Obj({"width", "height"}, "", 100, 50),
   Obj({"type", "option"}, "png", 0, 0), Obj({"type"}, "webp", 0, 0)}

RECURSIVE KeySets(_, _)
KeySets(keys, n) ==
  IF n = 0 THEN {{}}
  ELSE KeySets(keys, n - 1)
       \cup {ks \cup {k} : ks \in KeySets(keys, n - 1), k \in keys}

Overrides == UNION {[ks -> ToggleValues] : ks \in KeySets(TransformKeys, MaxOverrides)}

TransformOptions ==
  {Extend(Extend(RequiredOptions, base), o) : base \in {<<>>, AllOn}, o \in Overrides}

----------------------------------------------------------------------------
(* State *)

VARIABLES
  env,          \* names of the process.env variables that are set
  userOptions,  \* the options object given to the constructor
  engine,       \* "new", "ok" (constructed) or "threw"
  options,      \* this.options
  getDestination, \* this.getDestination: [kind, val]
  getFilename,  \* this.getFilename: "default" or "custom"
  gcStorage,    \* <<>> or <<the gcloud client configuration>>
  gcsBucket,    \* <<>> or <<the bucket name>>
  up,           \* the _handleFile calls
  rm,           \* the _removeFile calls
  compiled      \* <<>> or <<transformer(options)>>

vars == <<env, userOptions, engine, options, getDestination, getFilename,
          gcStorage, gcsBucket, up, rm, compiled>>

engineVars == <<env, userOptions, engine, options, getDestination,
                getFilename, gcStorage, gcsBucket>>

NoStrategy == [kind |-> "none", val |-> Undefined]

IdleUpload ==
  [pc |-> "idle", mimetype |-> "", destination |-> Undefined,
   filename |-> Undefined, cb |-> <<>>, gcName |-> Undefined, files |-> <<>>,
   writeStreams |-> <<>>, piped |-> FALSE, pipeline |-> <<>>,
   src |-> "none", xf |-> "none", ws |-> "none"]

IdleRemove ==
  [pc |-> "idle", filename |-> Undefined, destination |-> Undefined,
   cb |-> <<>>, files |-> <<>>, deletes |-> <<>>]

\* nothing constructed, no call made
Fresh ==
  /\ engine = "new"
  /\ options = <<>>
  /\ getDestination = NoStrategy
  /\ getFilename = "none"
  /\ gcStorage = <<>>
  /\ gcsBucket = <<>>
  /\ up = [c \in Calls |-> IdleUpload]
  /\ rm = [r \in Removes |-> IdleRemove]
  /\ compiled = <<>>

\* process.env is read only for a required option that is not given
Init ==
  /\ userOptions \in LifecycleOptions
  /\ env \in IF RequiredKeys \subseteq DOMAIN userOptions
              THEN {{}} ELSE {{}, EnvNames}
  /\ Fresh

----------------------------------------------------------------------------
(* constructor(options) *)

EnvVal(name) == IF name \in env THEN Str("env") ELSE Undefined

\* the three `if (!options.x) throw` checks
MissingRequiredEnv(user) ==
  \/ ~Truthy(Or(Prop(user, "bucket"), EnvVal("GCS_BUCKET")))
  \/ ~Truthy(Or(Prop(user, "projectId"), EnvVal("GCLOUD_PROJECT")))
  \/ ~Truthy(Or(Prop(user, "keyFilename"), EnvVal("GCS_KEYFILE")))

MissingRequired(user) ==
  \/ ~Truthy(Prop(user, "bucket"))
  \/ ~Truthy(Prop(user, "projectId"))
  \/ ~Truthy(Prop(user, "keyFilename"))

DestinationStrategy(user) ==
  IF TypeOf(Prop(user, "destination")) = "string"
  THEN [kind |-> "literal", val |-> Prop(user, "destination")]
  ELSE IF Truthy(Prop(user, "destination"))
       THEN [kind |-> "custom", val |-> Prop(user, "destination")]
       ELSE [kind |-> "default", val |-> Str("")]

\* the fields the constructor sets when it does not throw
Constructed(user) ==
  [options |-> MergeOptions(user),
   getFilename |-> IF Truthy(Prop(user, "filename")) THEN "custom" ELSE "default",
   getDestination |-> DestinationStrategy(user),
   gcStorage |->
     <<[projectId |-> Or(Or(Prop(user, "projectId"), EnvVal("GCLOUD_PROJECT")), Null),
        keyFilename |-> Or(Or(Prop(user, "keyFilename"), EnvVal("GCS_KEYFILE")), Null)]>>,
   gcsBucket |-> <<Or(Or(Prop(user, "bucket"), EnvVal("GCS_BUCKET")), Null)>>]

Construct ==
  /\ engine = "new"
  /\ IF MissingRequired(userOptions)
     THEN /\ engine' = "threw"
          /\ UNCHANGED <<options, getDestination, getFilename, gcStorage, gcsBucket>>
     ELSE /\ engine' = "ok"
          /\ options' = Constructed(userOptions).options
          /\ getFilename' = Constructed(userOptions).getFilename
          /\ getDestination' = Constructed(userOptions).getDestination
          /\ gcStorage' = Constructed(userOptions).gcStorage
          /\ gcsBucket' = Constructed(userOptions).gcsBucket
  /\ UNCHANGED <<env, userOptions, up, rm, compiled>>

----------------------------------------------------------------------------
(* _handleFile(req, file, cb) *)

\* one invocation of the completion callback: cb(err) or cb(null, result)
Cb(err, result) == [err |-> err, result |-> result]

Report(log, err) == IF err # "" THEN Append(log, Cb(err, <<>>)) ELSE log

\* what this.getDestination may hand to its callback
DestinationOutcomes(strategy) ==
  CASE strategy.kind = "default" -> {Outcome("", Str(""))}
    [] strategy.kind = "literal" -> {Outcome("", strategy.val)}
    [] OTHER -> {Outcome("destErr", Undefined)}
                \cup {Outcome("", d) : d \in CustomDestinations}

\* what this.getFilename may hand to its callback
FilenameOutcomes(kind) ==
  {Outcome("fileErr", Undefined)}
  \cup {Outcome("", f) : f \in IF kind = "default" THEN DefaultFilenames
                                ELSE CustomFilenames}

\* getFormat(this.options.format) || file.mimetype
ContentType(u) == Or(getFormat(options.format), Str(u.mimetype))

UploadResultPathOfFilename(u) ==
  [mimetype |-> ContentType(u),
   path |-> encodeURI("https://storage.googleapis.com/"
                      \o TemplateString(options.bucket) \o "/"
                      \o TemplateString(u.filename)),
   filename |-> u.filename]

\* the object handed to cb(null, ...) in the 'finish' listener
UploadResult(u) ==
  [mimetype |-> ContentType(u),
   path |-> encodeURI("https://storage.googleapis.com/"
                      \o TemplateString(options.bucket) \o "/"
                      \o TemplateString(u.gcName)),
   filename |-> u.filename]

HandleFile(c) ==
  /\ engine = "ok"
  /\ up[c].pc = "idle"
  /\ \E m \in InboundMimes :
       up' = [up EXCEPT ![c].pc = "getDestination", ![c].mimetype = m]
  /\ UNCHANGED <<engineVars, rm, compiled>>

\* the callback given to this.getDestination
DestinationCallback(c) ==
  /\ up[c].pc = "getDestination"
  /\ \E o \in DestinationOutcomes(getDestination) :
       up' = [up EXCEPT ![c].cb = Report(@, o.err),
                        ![c].destination = o.val,
                        ![c].pc = "getFilename"]
  /\ UNCHANGED <<engineVars, rm, compiled>>

\* the key kept in one slot of the engine instead of in the call
FilenameCallbackSharedName(c) ==
  /\ up[c].pc = "getFilename"
  /\ \E o \in FilenameOutcomes(getFilename), fileThrows \in BOOLEAN :
       LET u    == up[c]
           log  == Report(u.cb, o.err)
           name == gcNameUpload(u.destination, o.val)
           own  ==
             IF getFormatThrows(options.format)
             THEN [u EXCEPT !.cb = log, !.filename = o.val, !.pc = "threw"]
             ELSE IF ~Truthy(name) /\ fileThrows
             THEN [u EXCEPT !.cb = log, !.filename = o.val, !.gcName = name,
                            !.pc = "threw"]
             ELSE [u EXCEPT !.cb = log, !.filename = o.val, !.gcName = name,
                            !.files = Append(@, name),
                            !.pipeline = transformer(options),
                            !.writeStreams =
                               Append(@, [name |-> name,
                                          contentType |-> ContentType(u),
                                          predefinedAcl |-> options.acl]),
                            !.piped = TRUE,
                            !.src = "flowing", !.xf = "open", !.ws = "open",
                            !.pc = "piping"]
       IN  up' = [d \in DOMAIN up |->
                   IF d = c THEN own
                   ELSE IF up[d].pc = "piping" /\ own.pc = "piping"
                        THEN [up[d] EXCEPT !.gcName = name]
                        ELSE up[d]]
  /\ UNCHANGED <<engineVars, rm, compiled>>

\* the callback given to this.getFilename: it opens the streams.
\* gcsBucket.file(name) of an empty name may throw, depending on the client.
FilenameCallback(c) ==
  /\ up[c].pc = "getFilename"
  /\ \E o \in FilenameOutcomes(getFilename), fileThrows \in BOOLEAN :
       LET u    == up[c]
           log  == Report(u.cb, o.err)
           name == gcNameUpload(u.destination, o.val)
       IN  up' = [up EXCEPT ![c] =
             IF getFormatThrows(options.format)
             THEN [u EXCEPT !.cb = log, !.filename = o.val, !.pc = "threw"]
             ELSE IF ~Truthy(name) /\ fileThrows
             THEN [u EXCEPT !.cb = log, !.filename = o.val, !.gcName = name,
                            !.pc = "threw"]
             ELSE [u EXCEPT !.cb = log, !.filename = o.val, !.gcName = name,
                            !.files = Append(@, name),
                            !.pipeline = transformer(options),
                            !.writeStreams =
                               Append(@, [name |-> name,
                                          contentType |-> ContentType(u),
                                          predefinedAcl |-> options.acl]),
                            !.piped = TRUE,
                            !.src = "flowing", !.xf = "open", !.ws = "open",
                            !.pc = "piping"]]
  /\ UNCHANGED <<engineVars, rm, compiled>>

\* file.stream ends: pipe() ends the transform's input
SourceEnd(c) ==
  /\ up[c].src = "flowing"
  /\ up' = [up EXCEPT ![c].src = "ended"]
  /\ UNCHANGED <<engineVars, rm, compiled>>

\* file.stream emits 'error' (no listener is attached by _handleFile)
SourceError(c) ==
  /\ up[c].src = "flowing"
  /\ up' = [up EXCEPT ![c].src = "errored"]
  /\ UNCHANGED <<engineVars, rm, compiled>>

TransformEndReports(c) ==
  /\ up[c].xf = "open"
  /\ up[c].src = "ended"
  /\ up' = [up EXCEPT ![c].xf = "ended",
                      ![c].cb = Append(@, Cb("", <<UploadResult(up[c])>>))]
  /\ UNCHANGED <<engineVars, rm, compiled>>

\* the transform has written all its output: pipe() ends the write stream
TransformEnd(c) ==
  /\ up[c].xf = "open"
  /\ up[c].src = "ended"
  /\ up' = [up EXCEPT ![c].xf = "ended"]
  /\ UNCHANGED <<engineVars, rm, compiled>>

\* .on('error', (transformErr) => cb(transformErr))
TransformError(c) ==
  /\ up[c].xf = "open"
  /\ up[c].src # "errored"
  /\ up' = [up EXCEPT ![c].xf = "errored",
                      ![c].cb = Append(@, Cb("transformErr", <<>>))]
  /\ UNCHANGED <<engineVars, rm, compiled>>

\* .on('error', (gcErr) => cb(gcErr))
WriteError(c) ==
  /\ up[c].ws = "open"
  /\ up' = [up EXCEPT ![c].ws = "errored",
                      ![c].cb = Append(@, Cb("gcErr", <<>>))]
  /\ UNCHANGED <<engineVars, rm, compiled>>

\* .on('finish', () => cb(null, {mimetype, path, filename}))
WriteFinish(c) ==
  /\ up[c].ws = "open"
  /\ up[c].xf = "ended"
  /\ up' = [up EXCEPT ![c].ws = "finished",
                      ![c].cb = Append(@, Cb("", <<UploadResult(up[c])>>))]
  /\ UNCHANGED <<engineVars, rm, compiled>>

----------------------------------------------------------------------------
(* _removeFile(req, file, cb) *)

\* the stored file descriptors: the results of the uploads that succeeded
StoredFiles ==
  UNION {{up[c].cb[i].result[1] :
            i \in {j \in 1..Len(up[c].cb) : up[c].cb[j].err = ""}} : c \in DOMAIN up}

RemoveFile(r) ==
  /\ engine = "ok"
  /\ rm[r].pc = "idle"
  /\ \E file \in StoredFiles :
       rm' = [rm EXCEPT ![r].pc = "getDestination", ![r].filename = file.filename]
  /\ UNCHANGED <<engineVars, up, compiled>>

RemoveDestinationCallbackEager(r) ==
  /\ rm[r].pc = "getDestination"
  /\ \E o \in DestinationOutcomes(getDestination), fileThrows \in BOOLEAN :
       LET x    == rm[r]
           name == gcNameRemove(o.val, x.filename)
       IN  rm' = [rm EXCEPT ![r] =
             IF ~Truthy(name) /\ fileThrows
             THEN [x EXCEPT !.cb = Report(@, o.err), !.destination = o.val,
                            !.pc = "threw"]
             ELSE [x EXCEPT !.cb = Append(Report(@, o.err), Cb("", <<>>)),
                            !.destination = o.val,
                            !.files = Append(@, name),
                            !.deletes = Append(@, name),
                            !.pc = "deleting"]]
  /\ UNCHANGED <<engineVars, up, compiled>>

\* the callback given to this.getDestination: it issues the delete.
\* gcsBucket.file(name) of an empty name may throw, depending on the client.
RemoveDestinationCallback(r) ==
  /\ rm[r].pc = "getDestination"
  /\ \E o \in DestinationOutcomes(getDestination), fileThrows \in BOOLEAN :
       LET x    == rm[r]
           name == gcNameRemove(o.val, x.filename)
       IN  rm' = [rm EXCEPT ![r] =
             IF ~Truthy(name) /\ fileThrows
             THEN [x EXCEPT !.cb = Report(@, o.err), !.destination = o.val,
                            !.pc = "threw"]
             ELSE [x EXCEPT !.cb = Report(@, o.err),
                            !.destination = o.val,
                            !.files = Append(@, name),
                            !.deletes = Append(@, name),
                            !.pc = "deleting"]]
  /\ UNCHANGED <<engineVars, up, compiled>>

\* gcFile.delete(cb): the storage client calls cb(err) or cb(null)
DeleteCallback(r) ==
  /\ rm[r].pc = "deleting"
  /\ \E e \in {"", "deleteErr"} :
       rm' = [rm EXCEPT ![r].cb = Append(@, Cb(e, <<>>)), ![r].pc = "done"]
  /\ UNCHANGED <<engineVars, up, compiled>>

----------------------------------------------------------------------------
(* The engine: construction, then uploads and removals in any interleaving *)

Next ==
  \/ Construct
  \/ \E c \in DOMAIN up : HandleFile(c)
  \/ \E c \in DOMAIN up : DestinationCallback(c)
  \/ \E c \in DOMAIN up : FilenameCallback(c)
  \/ \E c \in DOMAIN up : SourceEnd(c)
  \/ \E c \in DOMAIN up : SourceError(c)
  \/ \E c \in DOMAIN up : TransformEnd(c)
  \/ \E c \in DOMAIN up : TransformError(c)
  \/ \E c \in DOMAIN up : WriteError(c)
  \/ \E c \in DOMAIN up : WriteFinish(c)
  \/ \E r \in DOMAIN rm : RemoveFile(r)
  \/ \E r \in DOMAIN rm : RemoveDestinationCallback(r)
  \/ \E r \in DOMAIN rm : DeleteCallback(r)

Spec == Init /\ [][Next]_vars

\* the steps the event loop and the streams take whenever they can; failures
\* of the source, the transform and the storage client are never forced
Progress(c) ==
  \/ DestinationCallback(c)
  \/ FilenameCallback(c)
  \/ TransformEnd(c)
  \/ WriteFinish(c)

FairSpec == Spec /\ \A c \in Calls : WF_vars(Progress(c))

----------------------------------------------------------------------------
(* Several uploads (and removals) in flight together through one engine *)

\* one valid configuration: a literal destination and the default filename
ParallelOptions ==
  {Extend(RequiredOptions, [destination |-> Str("img")])}

InitP ==
  /\ env = {}
  /\ userOptions \in ParallelOptions
  /\ engine = "new"
  /\ options = <<>>
  /\ getDestination = NoStrategy
  /\ getFilename = "none"
  /\ gcStorage = <<>>
  /\ gcsBucket = <<>>
  /\ up = [c \in Parallel |-> IdleUpload]
  /\ rm = [r \in Removes |-> IdleRemove]
  /\ compiled = <<>>

SpecP == InitP /\ [][Next]_vars

----------------------------------------------------------------------------
(* The constructor alone, over every combination of the required options *)

InitC ==
  /\ env \in SUBSET EnvNames
  /\ userOptions \in ConstructorOptions
  /\ Fresh

NextC == Construct

SpecC == InitC /\ [][NextC]_vars

----------------------------------------------------------------------------
(* transformer(this.options) alone, over the transform options *)

\* .pipe(transformer(this.options))
Compile ==
  /\ engine = "ok"
  /\ compiled = <<>>
  /\ compiled' = <<transformer(options)>>
  /\ UNCHANGED <<engineVars, up, rm>>

InitT ==
  /\ env = {}
  /\ userOptions \in TransformOptions
  /\ Fresh

NextT == Construct \/ Compile

SpecT == InitT /\ [][NextT]_vars

----------------------------------------------------------------------------
(* Properties *)

Errors(log) == {i \in 1..Len(log) : log[i].err # ""}
Successes(log) == {i \in 1..Len(log) : log[i].err = ""}
NamingErrors(log) == {i \in 1..Len(log) : log[i].err \in {"destErr", "fileErr"}}

\* C1: the completion callback of a _handleFile call is invoked at most once
\* in every reachable state (once with the first error or once with the
\* result), so no second error and no success follows a reported error.
C1_CallbackOnce == \A c \in Calls : Len(up[c].cb) <= 1

\* C2: once destination or filename resolution has reported an error, the
\* call has obtained no storage file handle, created no write stream and
\* never piped the source stream.
C2_NamingErrorAborts ==
  \A c \in Calls :
    NamingErrors(up[c].cb) # {} =>
      /\ up[c].files = <<>>
      /\ up[c].writeStreams = <<>>
      /\ ~up[c].piped

\* C3: when the source stream has emitted an error in an upload that had
\* reported nothing yet, the callback eventually has fired exactly once, with
\* that error, and the write stream never finishes afterwards.
C3_SourceErrorReported ==
  \A c \in Calls :
    /\ (up[c].src = "errored" /\ up[c].cb = <<>>) ~>
         (Len(up[c].cb) = 1 /\ up[c].cb[1].err = "sourceErr")
    /\ [](up[c].src = "errored" => up[c].ws # "finished")

\* C4: when destination resolution fails in _removeFile, the callback has
\* been invoked exactly once, with that error, and no delete is issued.
C4_RemoveAbortsOnDestinationError ==
  \A r \in Removes :
    (\E i \in 1..Len(rm[r].cb) : rm[r].cb[i].err = "destErr") =>
      /\ rm[r].deletes = <<>>
      /\ Len(rm[r].cb) = 1

\* C5: for a destination string d and a filename string f the key of the
\* write stream is f when d is empty and d + '/' + f otherwise, and a removal
\* that resolves the same destination for the filename of an upload result
\* deletes exactly the key that upload wrote.
C5_KeyRoundTrip ==
  /\ \A c \in Calls :
       LET u == up[c] IN
       (u.writeStreams # <<>> /\ u.destination.t = "string"
        /\ u.filename.t = "string") =>
         u.writeStreams[1].name =
           Str(IF u.destination.s = "" THEN u.filename.s
               ELSE u.destination.s \o "/" \o u.filename.s)
  /\ \A c \in Calls, r \in Removes :
       (/\ Successes(up[c].cb) # {}
        /\ rm[r].deletes # <<>>
        /\ rm[r].filename = up[c].filename
        /\ rm[r].destination = up[c].destination) =>
         rm[r].deletes[1] = up[c].writeStreams[1].name

C5_Witness ==
  \E c \in Calls, r \in Removes :
    /\ Successes(up[c].cb) # {}
    /\ up[c].destination = Str("img")
    /\ rm[r].destination = Str("img")
    /\ rm[r].filename = up[c].filename
    /\ rm[r].deletes = <<Str("img/my pic")>>

\* C6: an options object that lacks bucket, projectId or keyFilename makes the
\* constructor throw with no storage client and no bucket handle created;
\* with all three given the constructor succeeds and creates both.
Given(k) ==
  /\ k \in DOMAIN userOptions
  /\ userOptions[k].t = "string"
  /\ userOptions[k].s # ""

C6_RequiredOptions ==
  /\ engine # "ok" => gcStorage = <<>> /\ gcsBucket = <<>>
  /\ engine # "new" =>
       IF \A k \in RequiredKeys : Given(k)
       THEN engine = "ok" /\ gcStorage # <<>> /\ gcsBucket # <<>>
       ELSE engine = "threw"

C6_Witness ==
  /\ engine = "threw"
  /\ "bucket" \notin DOMAIN userOptions
  /\ Given("projectId") /\ Given("keyFilename")
  /\ env = EnvNames

\* the fixed order of the 26 stages, by the sharp method each one calls
StageOrder ==
  <<"resize", "background", "crop", "embed", "max", "min",
    "withoutEnlargement", "ignoreAspectRatio", "extract", "trim", "flatten",
    "extend", "negate", "rotate", "flip", "flop", "blur", "sharpen", "gamma",
    "greyscale", "normalise", "convolve", "threshold", "toColourspace",
    "withMetadata", "toFormat">>

StageNames == {StageOrder[i] : i \in 1..Len(StageOrder)}
Position ==
  [op \in StageNames |-> CHOOSE i \in 1..Len(StageOrder) : StageOrder[i] = op]
Ops(p) == {p[i].op : i \in 1..Len(p)}

\* C7: the compiled pipeline is a subsequence of the fixed order: every stage
\* is one of the 26, each stage stands at a strictly later position of the
\* order than the stage before it (so no stage appears twice and no two are
\* reversed), and the format stage, if any, is last.
C7_FixedOrder ==
  compiled # <<>> =>
    LET p == compiled[1] IN
    /\ \A i \in 1..Len(p) : p[i].op \in StageNames
    /\ \A i \in 1..Len(p) - 1 : Position[p[i].op] < Position[p[i + 1].op]
    /\ \A i \in 1..Len(p) : p[i].op = "toFormat" => i = Len(p)

C7_Witness ==
  /\ compiled # <<>>
  /\ [i \in 1..Len(compiled[1]) |-> compiled[1][i].op] = StageOrder

\* the options that switch a stage on
Toggles(op) ==
  CASE op = "greyscale"     -> {"grayscale", "greyscale"}
    [] op = "normalise"     -> {"normalize", "normalise"}
    [] op = "toColourspace" -> {"toColourspace", "toColorspace"}
    [] op = "toFormat"      -> {"format"}
    [] OTHER                -> {op}

ToggleOff(op) == \A k \in Toggles(op) : ~Truthy(options[k])

\* C8 (as claimed): no stage whose toggle is falsy is in the pipeline, and
\* the defaults alone compile to the empty pipeline.
C8_FalsyToggleSkips ==
  compiled # <<>> =>
    /\ \A op \in StageNames : ToggleOff(op) => op \notin Ops(compiled[1])
    /\ userOptions = RequiredOptions => compiled[1] = <<>>

\* C8 (amended): no stage other than rotate is in the pipeline when its
\* toggle is falsy; the rotate stage is absent for false, '', null, undefined
\* and NaN but present for the number 0; the defaults alone compile to the
\* empty pipeline.
C8_FalsyToggleSkipsExceptRotateZero ==
  compiled # <<>> =>
    /\ \A op \in StageNames \ {"rotate"} :
         ToggleOff(op) => op \notin Ops(compiled[1])
    /\ ToggleOff("rotate") =>
         ("rotate" \in Ops(compiled[1]) <=> options.rotate = Num(0))
    /\ userOptions = RequiredOptions => compiled[1] = <<>>

C8_Witness ==
  /\ compiled # <<>>
  /\ "size" \in DOMAIN userOptions /\ Truthy(userOptions.size)
  /\ options.resize = Num(0)
  /\ Ops(compiled[1]) = StageNames \ {"resize"}

Cardinal(v) == v.t = "number" /\ v.s # "NaN" /\ v.n \in {0, 90, 180, 270}

WithoutRotate(o) == [k \in DOMAIN o \ {"rotate"} |-> o[k]]

\* C9: a rotate value outside the numbers 0, 90, 180, 270 gives no rotate
\* stage and the pipeline of the same configuration without rotate; a value
\* among them gives exactly one rotate stage, with that angle.
C9_RotateWhitelist ==
  compiled # <<>> =>
    LET p == compiled[1]
        rotates == {i \in 1..Len(p) : p[i].op = "rotate"}
    IN  IF Cardinal(options.rotate)
        THEN /\ Cardinality(rotates) = 1
             /\ \A i \in rotates : p[i].args = <<options.rotate>>
        ELSE /\ rotates = {}
             /\ p = transformer(MergeOptions(WithoutRotate(userOptions)))

C9_Witness ==
  /\ compiled # <<>>
  /\ options.rotate = Num(45)
  /\ Ops(compiled[1]) = StageNames \ {"rotate"}

\* the name of a configured format: a bare name or the type of an object
FormatName(f) ==
  IF f.t = "string" THEN f.s
  ELSE IF f.t = "object" /\ "type" \in f.own THEN f.type ELSE ""

Configured(f) == FormatName(f) # ""

\* C10 (as claimed): the contentType of the write stream is the lookup of the
\* configured format whenever one is configured, else the file's MIME type,
\* and the result's mimetype is that contentType.
C10_ContentTypeIsFormatLookup ==
  \A c \in Calls :
    LET u == up[c] IN
    /\ \A i \in 1..Len(u.writeStreams) :
         u.writeStreams[i].contentType =
           IF Configured(options.format) THEN lookup(Str(FormatName(options.format)))
           ELSE Str(u.mimetype)
    /\ \A i \in Successes(u.cb) :
         u.cb[i].result[1].mimetype = u.writeStreams[1].contentType

\* C10 (amended): the contentType is the lookup of the configured format
\* whenever the lookup knows it; it is the file's MIME type when no format is
\* configured or the lookup does not know the format; the result's mimetype
\* is that contentType.
C10_ContentTypeFallsBack ==
  \A c \in Calls :
    LET u == up[c]
        name == FormatName(options.format)
    IN
    /\ \A i \in 1..Len(u.writeStreams) :
         u.writeStreams[i].contentType =
           IF name \in DOMAIN MimeTable THEN Str(MimeTable[name])
           ELSE Str(u.mimetype)
    /\ \A i \in Successes(u.cb) :
         u.cb[i].result[1].mimetype = u.writeStreams[1].contentType

C10_Witness ==
  \E c \in Calls :
    /\ up[c].ws = "finished"
    /\ options.format = Str("dz")
    /\ up[c].writeStreams[1].contentType = Str("image/bmp")
    /\ up[c].cb = <<Cb("", <<UploadResult(up[c])>>)>>

\* C11: the pipeline has a resize stage exactly when the resize toggle is
\* truthy and a size is given; it is then the first stage, the only resize,
\* and carries size.width, size.height and size.option; with the default
\* resize and no size there is none.
C11_ResizeNeedsSize ==
  compiled # <<>> =>
    LET p == compiled[1]
        resizes == {i \in 1..Len(p) : p[i].op = "resize"}
    IN  /\ resizes # {} <=> (Truthy(options.resize) /\ Truthy(options.size))
        /\ resizes # {} =>
             /\ resizes = {1}
             /\ p[1].args = <<Get(options.size, "width"),
                              Get(options.size, "height"),
                              Get(options.size, "option")>>
        /\ ("size" \notin DOMAIN userOptions /\ "resize" \notin DOMAIN userOptions)
             => resizes = {}

C11_Witness ==
  /\ compiled # <<>>
  /\ DOMAIN userOptions = RequiredKeys \cup {"size"}
  /\ options.resize = Bool(TRUE)
  /\ compiled[1] = <<Stage("resize", <<Num(100), Num(50), Undefined>>)>>

\* C13: a removal of a stored file with a recorded filename, whose
\* destination resolved without error, issues exactly one delete, for the key
\* computed from that destination and that filename; its callback has not fired while the delete is pending and has
\* fired exactly once, with the storage client's error or with none, when
\* the delete is done.
C13_RemoveDeletesOnce ==
  \A r \in Removes :
    LET x == rm[r]
        d == x.destination
    IN  (/\ x.pc \notin {"idle", "getDestination"}
         /\ NamingErrors(x.cb) = {}
         /\ x.filename.t = "string") =>
          /\ x.pc \in {"deleting", "done"}
          /\ x.deletes =
               <<Str(IF d.t = "string" /\ d.s # ""
                     THEN d.s \o "/" \o x.filename.s ELSE x.filename.s)>>
          /\ x.pc = "deleting" => x.cb = <<>>
          /\ x.pc = "done" =>
               /\ Len(x.cb) = 1
               /\ x.cb[1].err \in {"", "deleteErr"}

C13_Witness ==
  \E r \in Removes :
    /\ rm[r].pc = "done"
    /\ rm[r].destination = Str("img")
    /\ rm[r].deletes = <<Str("img/a1b2c3")>>
    /\ rm[r].cb = <<Cb("deleteErr", <<>>)>>

\* C14: a success is in the callback log only when the write stream has
\* finished, never while it is open; a call that opened its streams opened
\* exactly one write stream, on one file handle and one key, and a call
\* that did not opened none.
C14_SuccessAfterFinish ==
  \A c \in Calls :
    LET u == up[c] IN
    /\ Successes(u.cb) # {} => u.ws = "finished"
    /\ u.ws = "open" => Successes(u.cb) = {}
    /\ Cardinality(Successes(u.cb)) <= 1
    /\ IF u.pc = "piping"
       THEN /\ Len(u.writeStreams) = 1 /\ Len(u.files) = 1
            /\ u.writeStreams[1].name = u.files[1]
       ELSE u.writeStreams = <<>> /\ u.files = <<>>

C14_Witness ==
  \E c \in Calls :
    /\ up[c].ws = "finished"
    /\ Len(up[c].writeStreams) = 1
    /\ Len(up[c].cb) = 1
    /\ Successes(up[c].cb) = {1}

\* the URL of a key before any escaping
PlainUrl(bucket, key) == "https://storage.googleapis.com/" \o bucket \o "/" \o key

\* a string with its spaces and percent signs percent-escaped
RECURSIVE EscapedFrom(_, _)
EscapedFrom(s, i) ==
  IF i > Len(s) THEN ""
  ELSE LET ch == SubSeq(s, i, i)
       IN  (CASE ch = " " -> "%20" [] ch = "%" -> "%25" [] OTHER -> ch)
           \o EscapedFrom(s, i + 1)

\* the URL of a key with the bucket and the key percent-escaped; the prefix
\* has no character to escape
EscapedUrl(bucket, key) ==
  "https://storage.googleapis.com/" \o EscapedFrom(bucket, 1) \o "/"
    \o EscapedFrom(key, 1)

\* the successful uploads of a call whose key is a string
NamedSuccesses(u) ==
  IF u.writeStreams # <<>> /\ u.writeStreams[1].name.t = "string"
  THEN Successes(u.cb) ELSE {}

\* C15 (as claimed): the result's filename is the filename of the filename
\* strategy and its path is the URL prefix, the bucket, '/' and exactly the
\* key of the write stream.
C15_PathIsPrefixBucketKey ==
  \A c \in Calls :
    LET u == up[c] IN
    \A i \in NamedSuccesses(u) :
      /\ u.cb[i].result[1].filename = u.filename
      /\ u.cb[i].result[1].path =
           PlainUrl(options.bucket.s, u.writeStreams[1].name.s)

\* C15 (amended): the result's filename is the filename of the filename
\* strategy and its path is the percent-encoded form of the URL prefix, the
\* bucket, '/' and the key of the write stream; with an empty destination
\* the key is the filename alone.
C15_PathIsEncodedPrefixBucketKey ==
  \A c \in Calls :
    LET u == up[c] IN
    \A i \in NamedSuccesses(u) :
      /\ u.cb[i].result[1].filename = u.filename
      /\ u.cb[i].result[1].path =
           EscapedUrl(options.bucket.s, u.writeStreams[1].name.s)
      /\ (u.destination = Str("") /\ u.filename.t = "string") =>
           u.cb[i].result[1].path =
             EscapedUrl(options.bucket.s, u.filename.s)

C15_Witness ==
  \E c \in Calls :
    /\ up[c].ws = "finished"
    /\ up[c].destination = Str("img")
    /\ up[c].cb =
         <<Cb("", <<[mimetype |-> Str("image/bmp"),
                     path |-> "https://storage.googleapis.com/b/img/my%20pic",
                     filename |-> Str("my pic")]>>)>>

\* C16: whenever a format is configured (a bare name or an object with a
\* type), the first argument of the toFormat stage of an upload's pipeline is
\* the format name, and it is the value the content-type lookup is given.
C16_SameFormatName ==
  \A c \in Calls :
    LET u == up[c] IN
    (u.pc = "piping" /\ Configured(options.format)) =>
      \E i \in 1..Len(u.pipeline) :
        /\ u.pipeline[i].op = "toFormat"
        /\ u.pipeline[i].args[1] = Str(FormatName(options.format))
        /\ u.pipeline[i].args[1] = formatLookedUp(options.format)

\* C12: with two or more uploads and removals in flight through one engine,
\* the key, the write stream's content type, the result and every reported
\* error of an operation are those of its own file, naming and streams; each
\* step changes the record of one operation only, and once the engine is
\* constructed no step changes its options, its strategies, its storage
\* client or its bucket handle.
OwnUpload(u) ==
  /\ u.pc = "piping" =>
       /\ u.gcName = gcNameUpload(u.destination, u.filename)
       /\ u.files = <<u.gcName>>
       /\ u.writeStreams = <<[name |-> u.gcName, contentType |-> ContentType(u),
                              predefinedAcl |-> options.acl]>>
  /\ \A i \in 1..Len(u.cb) :
       CASE u.cb[i].err = "" ->
              /\ u.ws = "finished"
              /\ u.cb[i].result =
                   <<[mimetype |-> ContentType(u),
                      path |-> EscapedUrl(TemplateString(options.bucket),
                                          TemplateString(u.gcName)),
                      filename |-> u.filename]>>
         [] u.cb[i].err = "destErr" -> u.destination = Undefined
         [] u.cb[i].err = "fileErr" -> u.filename = Undefined
         [] u.cb[i].err = "transformErr" -> u.xf = "errored"
         [] u.cb[i].err = "gcErr" -> u.ws = "errored"
         [] OTHER -> FALSE

OwnRemove(x) ==
  /\ x.pc \in {"deleting", "done"} =>
       x.deletes = <<gcNameRemove(x.destination, x.filename)>>
  /\ x.pc \notin {"deleting", "done"} => x.deletes = <<>>
  /\ \A i \in 1..Len(x.cb) :
       \/ x.cb[i].err = "destErr" /\ x.destination = Undefined
       \/ x.cb[i].err \in {"", "deleteErr"} /\ x.pc = "done" /\ i = Len(x.cb)

OneOperationStep ==
  engine = "ok" =>
    /\ options' = options
    /\ getDestination' = getDestination
    /\ getFilename' = getFilename
    /\ gcStorage' = gcStorage
    /\ gcsBucket' = gcsBucket
    /\ up' = up \/ rm' = rm
    /\ \E c \in DOMAIN up : \A d \in DOMAIN up \ {c} : up'[d] = up[d]
    /\ \E r \in DOMAIN rm : \A q \in DOMAIN rm \ {r} : rm'[q] = rm[q]

C12_OperationsIndependent ==
  /\ [](\A c \in DOMAIN up : OwnUpload(up[c]))
  /\ [](\A r \in DOMAIN rm : OwnRemove(rm[r]))
  /\ [][OneOperationStep]_vars

\* two uploads in flight together that end differently, one with its result
\* and one with its transform error, while a removal is in flight
C12_Witness ==
  \E c, d \in DOMAIN up, r \in DOMAIN rm :
    /\ c # d
    /\ up[c].pc = "piping" /\ up[d].pc = "piping"
    /\ up[c].cb = <<Cb("", <<UploadResult(up[c])>>)>>
    /\ up[d].cb = <<Cb("transformErr", <<>>)>>
    /\ rm[r].pc = "deleting"

====
